---- MODULE Spec2Model ----
(***************************************************************************)
(* Sokoban: the Level board (src/src/level.py, class Level), the search    *)
(* thread (class Graph) and its nodes (class Node), and the replay of a    *)
(* found solution on the live board.                                       *)
(*                                                                         *)
(* Coordinates are the program's (row, column) pairs, counted from 0.      *)
(* A puzzle state is the dict built by Level.state: the player's           *)
(* coordinate and the TUPLE of box coordinates, compared as Python         *)
(* compares dicts of tuples: position by position.                         *)
(***************************************************************************)
EXTENDS Integers, Sequences, FiniteSets, TLC

VARIABLES
    levelFile,  \* the text of the level file: its lines, each a row of characters
    raised,     \* the error that ended the program; None while it runs
    level,      \* Level._level: the rows of tile types read from the file
    tiles,      \* Level._tiles: tuple of PassiveTile (tileType, row, column)
    player,     \* (Level._player.row, Level._player.column)
    boxes,      \* tuple of (box.row, box.column), one per Box of Level._boxes
    origState,  \* Level._origState
    graphs,     \* every Graph created by _createGraph; Level._graph is the last
    connected,  \* number of connections moveFinished -> Level._nextStep
    animating,  \* an animated player move is in flight (moveFinished pending)
    emitted,    \* signals of Level delivered to the presentation layer
    manual,     \* number of movePlayer/reset calls made by the input dispatcher
    sceneTiles, \* DataModel._tiles: PassiveTile and Floor objects with their flags
    scenePlayer,\* (DataModel._player.row, DataModel._player.column)
    sceneBoxes, \* tuple of (box.row, box.column), one per Box of DataModel._boxes
    moveLock    \* DataModel._moveLock

vars == <<levelFile, raised, level, tiles, player, boxes, origState, graphs,
          connected, animating, emitted, manual,
          sceneTiles, scenePlayer, sceneBoxes, moveLock>>

\* The fields of the DataModel scene; a Level has none of them.
sceneVars == <<sceneTiles, scenePlayer, sceneBoxes, moveLock>>

NoScene ==
    /\ sceneTiles = <<>>
    /\ scenePlayer = <<>>
    /\ sceneBoxes = <<>>
    /\ moveLock = FALSE

----------------------------------------------------------------------------
(* Bounds of the model. *)

MaxSearches == 2
MaxManual == 1
MaxMoves == 3
RowLen == 4

----------------------------------------------------------------------------
(* Python values. *)

None == "None"

KEY_PLAYER_POS == "player_pos"
KEY_BOXES_POS == "boxes_pos"

\* Tile.Type: the eight symbols of a level file.
WALL == "#"
PLAYER == "@"
PLAYER_ON_GOAL == "+"
BOX == "$"
BOX_ON_GOAL == "*"
GOAL == "."
FLOOR == " "
BACKGROUND == "x"

\* x in seq (Python's membership test on a tuple or list).
In(x, seq) == \E i \in 1..Len(seq) : seq[i] = x

\* list.remove(x): drops the first occurrence of x.
RECURSIVE ListRemove(_, _)
ListRemove(seq, x) ==
    IF seq = <<>> THEN <<>>
    ELSE IF Head(seq) = x THEN Tail(seq)
    ELSE <<Head(seq)>> \o ListRemove(Tail(seq), x)

\* reversed(seq)
Reversed(seq) == [i \in 1..Len(seq) |-> seq[Len(seq) + 1 - i]]

\* Level.DIRECTIONS in the dict's insertion order: Left, Right, Up, Down.
DIRECTIONS == << <<0, -1>>, <<0, 1>>, <<-1, 0>>, <<1, 0>> >>

\* Every outcome of random.shuffle on the list of the four directions.
Shuffles ==
    {[i \in 1..4 |-> DIRECTIONS[p[i]]] :
        p \in {q \in [1..4 -> 1..4] : \A i, j \in 1..4 : i # j => q[i] # q[j]}}

----------------------------------------------------------------------------
(* Level files: each row is the sequence of the characters of one line. *)

LevelFiles == {
    \* two boxes in a corridor, one goal: no solution, the search explores
    \* everything
    << <<"#","#","#","#","#","#","#">>,
       <<"#",".","$","@","$"," ","#">>,
       <<"#","#","#","#","#","#","#">> >>,
    \* two boxes in a corridor, a goal at each end
    << <<"#","#","#","#","#","#","#">>,
       <<"#",".","$","@","$",".","#">>,
       <<"#","#","#","#","#","#","#">> >>,
    \* solved at the start; the only move pushes the box off its goal
    << <<"#","#","#","#","#">>,
       <<"#","@","*"," ","#">>,
       <<"#","#","#","#","#">> >>,
    \* solved at the start, with a free cell to step on
    << <<"x","#","#","#","#">>,
       <<"#","+"," ","*","#">>,
       <<"#","#","#","#","x">> >>
}

\* The 5x5 board: player at (2,2), box at (3,3), goal at (1,1).
Board5x5 ==
    << <<"#","#","#","#","#">>,
       <<"#","."," "," ","#">>,
       <<"#"," ","@"," ","#">>,
       <<"#"," "," ","$","#">>,
       <<"#","#","#","#","#">> >>

\* The level files of the runs that look at one search only: the ones above
\* and boards with two rows of floor.
SearchLevelFiles == LevelFiles \cup {
    \* one box, two rows: the push needs a detour
    << <<"#","#","#","#","#">>,
       <<"#","@"," "," ","#">>,
       <<"#"," ","$",".","#">>,
       <<"#","#","#","#","#">> >>,
    \* two boxes, two rows, two goals
    << <<"#","#","#","#","#">>,
       <<"#","@","$",".","#">>,
       <<"#"," ","$",".","#">>,
       <<"#","#","#","#","#">> >>,
    Board5x5
}

\* The whitespace characters that can stand in a line of a level file.
TAB == "\t"
Whitespace == {" ", TAB}

\* The rows of the corridor files: RowLen characters between two walls, at
\* most one of them the player, "?" standing for a character that is no
\* tile symbol.
CorridorRows ==
    {r \in [1..RowLen -> {PLAYER, BOX, GOAL, FLOOR, BOX_ON_GOAL, WALL, "?"}] :
        Cardinality({i \in 1..RowLen : r[i] = PLAYER}) <= 1}

WallRow == [i \in 1..(RowLen + 2) |-> WALL]

\* The level files of the runs that look at the board alone: the ones
\* above, every corridor, and corridors whose first line ends with a tab.
BoardLevelFiles ==
    SearchLevelFiles
        \cup {<<WallRow, <<WALL>> \o r \o <<WALL>>, WallRow>> : r \in CorridorRows}
        \cup {<<WallRow \o <<"\t">>, <<WALL>> \o r \o <<WALL>>, WallRow>> :
                 r \in {q \in CorridorRows : q[1] = PLAYER /\ q[2] = BOX}}

\* str.strip() of one line: leading and trailing whitespace is dropped.
RECURSIVE LStrip(_)
LStrip(line) ==
    IF line # <<>> /\ Head(line) \in Whitespace THEN LStrip(Tail(line)) ELSE line

Strip(line) == Reversed(LStrip(Reversed(LStrip(line))))

\* One character of a level file to its Tile.Type (None when unknown).
TileTypeOf(literal) ==
    IF literal \in {WALL, PLAYER, PLAYER_ON_GOAL, BOX, BOX_ON_GOAL, GOAL,
                    FLOOR, BACKGROUND}
    THEN literal ELSE None

\* Level._openLevelFile
openLevelFile(file) ==
    [r \in 1..Len(file) |->
        LET stripped == Strip(file[r])
        IN  [c \in 1..Len(stripped) |-> TileTypeOf(stripped[c])]]

\* The cells of the level in the order Level.__init__ visits them.
RECURSIVE CellsFrom(_, _, _)
CellsFrom(lvl, r, c) ==
    IF r > Len(lvl) THEN <<>>
    ELSE IF c > Len(lvl[r]) THEN CellsFrom(lvl, r + 1, 1)
    ELSE <<[tileType |-> lvl[r][c], row |-> r - 1, column |-> c - 1]>>
         \o CellsFrom(lvl, r, c + 1)

Cells(lvl) == CellsFrom(lvl, 1, 1)

\* Tile.PIXMAPS: the tile types that have a pixmap.
PIXMAPS == {WALL, PLAYER, PLAYER_ON_GOAL, BOX, BOX_ON_GOAL, GOAL, FLOOR,
            BACKGROUND}

\* Tile.__init__ without the lookup of line 52: nothing is raised.
Tile_initRaisesNever(tileType) == None

\* Tile.__init__ looks the pixmap of the tile type up: a type without one
\* raises KeyError.
Tile_initRaises(tileType) == IF tileType \in PIXMAPS THEN None ELSE "KeyError"

\* Level.__init__: the error the constructor ends with, None when it
\* returns.  The loop over the cells builds a PassiveTile for every cell that
\* is neither player nor box; line 78 reads the coordinates of the player.
Level_initRaises(lvl) ==
    LET cells == Cells(lvl)
        bad == {i \in 1..Len(cells) :
                   /\ cells[i].tileType \notin {PLAYER, PLAYER_ON_GOAL, BOX, BOX_ON_GOAL}
                   /\ Tile_initRaises(cells[i].tileType) # None}
    IN  IF bad # {}
        THEN Tile_initRaises(cells[CHOOSE i \in bad : \A j \in bad : i <= j].tileType)
        ELSE IF \A i \in 1..Len(cells) :
                    cells[i].tileType \notin {PLAYER, PLAYER_ON_GOAL}
        THEN "AttributeError"
        ELSE None

\* Level.__init__: the passive tile left under each cell.
InitTiles(lvl) ==
    LET cells == Cells(lvl)
    IN  [i \in 1..Len(cells) |->
            [cells[i] EXCEPT !.tileType =
                IF @ \in {PLAYER, BOX} THEN FLOOR
                ELSE IF @ \in {PLAYER_ON_GOAL, BOX_ON_GOAL} THEN GOAL
                ELSE @]]

\* Level.__init__: the player is the last player cell met.
InitPlayer(lvl) ==
    LET cells == Cells(lvl)
        isP(i) == cells[i].tileType \in {PLAYER, PLAYER_ON_GOAL}
        last == CHOOSE i \in 1..Len(cells) :
                    isP(i) /\ \A j \in (i + 1)..Len(cells) : ~isP(j)
    IN  <<cells[last].row, cells[last].column>>

\* Level.__init__: one Box per box cell, in reading order.
RECURSIVE BoxesOf(_)
BoxesOf(cells) ==
    IF cells = <<>> THEN <<>>
    ELSE (IF Head(cells).tileType \in {BOX, BOX_ON_GOAL}
          THEN << <<Head(cells).row, Head(cells).column>> >> ELSE <<>>)
         \o BoxesOf(Tail(cells))

InitBoxes(lvl) == BoxesOf(Cells(lvl))

----------------------------------------------------------------------------
(* Tiles. *)

\* A tile can be walked on: its kind is floor or goal.
isFloor(tile) == tile.tileType \in {FLOOR, GOAL}

\* A tile is a goal tile.
isGoal(tile) == tile.tileType = GOAL

\* Level.tileOnCoords: the first tile with these coordinates.
tileOnCoords(row, column) ==
    LET hit(i) == tiles[i].row = row /\ tiles[i].column = column
    IN  tiles[CHOOSE i \in 1..Len(tiles) : hit(i) /\ \A j \in 1..(i - 1) : ~hit(j)]

\* Level.goalCoords
RECURSIVE GoalsOf(_)
GoalsOf(ts) ==
    IF ts = <<>> THEN <<>>
    ELSE (IF isFloor(Head(ts)) /\ isGoal(Head(ts))
          THEN << <<Head(ts).row, Head(ts).column>> >> ELSE <<>>)
         \o GoalsOf(Tail(ts))

goalCoords == GoalsOf(tiles)

\* Level.wallsCoords
RECURSIVE WallsOf(_)
WallsOf(ts) ==
    IF ts = <<>> THEN <<>>
    ELSE (IF ~isFloor(Head(ts))
          THEN << <<Head(ts).row, Head(ts).column>> >> ELSE <<>>)
         \o WallsOf(Tail(ts))

wallsCoords == WallsOf(tiles)

----------------------------------------------------------------------------
(* The live board.  The handlers below run one after another inside one    *)
(* foreground event, so they are written as operators from a world w (the   *)
(* mutable fields of the Level and of its graphs) to the world after the   *)
(* call.                                                                   *)

World == [player |-> player, boxes |-> boxes, graphs |-> graphs,
          connected |-> connected, animating |-> animating]

\* Level.state
Level_state(w) == [player_pos |-> w.player, boxes_pos |-> w.boxes]

\* Level.box: the first box on these coordinates (0 stands for None).
Level_box(w, row, column) ==
    LET hit(i) == w.boxes[i] = <<row, column>>
    IN  IF \E i \in 1..Len(w.boxes) : hit(i)
        THEN CHOOSE i \in 1..Len(w.boxes) : hit(i) /\ \A j \in 1..(i - 1) : ~hit(j)
        ELSE 0

\* Level._canBoxBeMoved
Level_canBoxBeMoved(w, dRow, dColumn, box) ==
    LET rowTo == w.boxes[box][1] + dRow
        columnTo == w.boxes[box][2] + dColumn
        tileTo == tileOnCoords(rowTo, columnTo)
    IN  IF isFloor(tileTo) THEN Level_box(w, rowTo, columnTo) = 0 ELSE FALSE

\* Level._canPlayerBeMoved
Level_canPlayerBeMoved(w, dRow, dColumn) ==
    LET rowTo == w.player[1] + dRow
        columnTo == w.player[2] + dColumn
        tileTo == tileOnCoords(rowTo, columnTo)
        box == Level_box(w, rowTo, columnTo)
    IN  IF isFloor(tileTo)
        THEN IF box # 0 THEN Level_canBoxBeMoved(w, dRow, dColumn, box) ELSE TRUE
        ELSE FALSE

\* ActiveTile.setCoords of a box: the new coordinates are stored at once.
Box_setCoords(w, box, row, column) ==
    [w EXCEPT !.boxes[box] = <<row, column>>]

\* Box.move without its call of setCoords: the box stays.
Box_moveNowhere(w, box, dRow, dColumn) == w

\* Box.move
Box_move(w, box, dRow, dColumn) ==
    Box_setCoords(w, box, w.boxes[box][1] + dRow, w.boxes[box][2] + dColumn)

\* ActiveTile.setCoords of the player: the coordinates are stored at once;
\* an animated call starts the animation whose end emits moveFinished.
Player_setCoords(w, row, column, animated) ==
    [w EXCEPT !.player = <<row, column>>,
              !.animating = IF animated THEN TRUE ELSE @]

\* Player.move
Player_move(w, dRow, dColumn, animated) ==
    Player_setCoords(w, w.player[1] + dRow, w.player[2] + dColumn, animated)

\* Level.movePlayer without the test of line 361: the player is moved
\* whatever is in the way, a box only when it can be pushed.
Level_movePlayerUnchecked(w, dRow, dColumn, animated) ==
    LET box == Level_box(w, w.player[1] + dRow, w.player[2] + dColumn)
    IN  Player_move(IF box # 0 /\ Level_canBoxBeMoved(w, dRow, dColumn, box)
                    THEN Box_move(w, box, dRow, dColumn)
                    ELSE w,
                    dRow, dColumn, animated)

\* Level.movePlayer
Level_movePlayer(w, dRow, dColumn, animated) ==
    LET playerRowTo == w.player[1] + dRow
        playerColumnTo == w.player[2] + dColumn
        box == Level_box(w, playerRowTo, playerColumnTo)
        w1 == IF box # 0 /\ Level_canBoxBeMoved(w, dRow, dColumn, box)
              THEN Box_move(w, box, dRow, dColumn)
              ELSE w
    IN  IF Level_canPlayerBeMoved(w, dRow, dColumn)
        THEN Player_move(w1, dRow, dColumn, animated)
        ELSE w

\* Level.reset, lines 268-273: the loop over the boxes from box i on; box i
\* goes to the i-th coordinate of the state.
RECURSIVE ResetBoxes(_, _, _)
ResetBoxes(w, st, i) ==
    IF i > Len(w.boxes) THEN w
    ELSE ResetBoxes(Box_setCoords(w, i, st.boxes_pos[i][1], st.boxes_pos[i][2]),
                    st, i + 1)

\* Level.reset without lines 268-273: only the player is put back.
Level_resetPlayerOnly(w, state) ==
    LET st == IF state = <<>> THEN origState ELSE state[1]
    IN  Player_setCoords(w, st.player_pos[1], st.player_pos[2], FALSE)

\* Level.reset.  The optional argument is <<>> (no state given) or <<state>>.
Level_reset(w, state) ==
    LET st == IF state = <<>> THEN origState ELSE state[1]
    IN  ResetBoxes(Player_setCoords(w, st.player_pos[1], st.player_pos[2], FALSE),
                   st, 1)

\* Level.isSolved asking the goals instead of the boxes: every goal tile
\* carries a box.
Level_isSolvedAllGoals(w) ==
    \A k \in 1..Len(goalCoords) : In(goalCoords[k], w.boxes)

\* Level.isSolved
Level_isSolved(w) ==
    \A i \in 1..Len(w.boxes) : isGoal(tileOnCoords(w.boxes[i][1], w.boxes[i][2]))

----------------------------------------------------------------------------
(* The search: class Graph and class Node.                                 *)
(*                                                                         *)
(* A graph g is a record of the fields of one Graph object.  Its nodes are *)
(* kept in g.nodes and named by their index there (0 stands for None);     *)
(* frontier, explored and solution hold such indices.  g.pc is the         *)
(* position of the thread: "run" inside the loop of run(), "finished" once *)
(* run() has returned and the finished signal is queued, "handled" once    *)
(* the slots connected to it have run.  Two fields record history:         *)
(* g.returned is the value of _solution when run() returned, and           *)
(* g.requestedAt is the value of manual when the search was requested.     *)

BFS == "BFS"
DFS == "DFS"

\* Node.__init__ without the "+1" of line 648: a child has the depth of
\* its parent.
NodeSameDepth(nodes, state, parent) ==
    [state |-> state, parent |-> parent,
     depth |-> IF parent # 0 THEN nodes[parent].depth ELSE 0]

\* Node.__init__
Node(nodes, state, parent) ==
    [state |-> state, parent |-> parent,
     depth |-> IF parent # 0 THEN nodes[parent].depth + 1 ELSE 0]

\* Graph.__init__
Graph(state, goal, walls, requestedAt) ==
    [state |-> state, goal |-> goal, walls |-> walls,
     frontier |-> <<>>, explored |-> <<>>, solution |-> <<>>,
     algorithm |-> None, deterministic |-> TRUE,
     nodes |-> <<>>, pc |-> "new", returned |-> <<>>,
     requestedAt |-> requestedAt]

\* Graph._playerCanBeMoved without lines 488-493: a box on the destination
\* is pushed whatever stands behind it.
Graph_playerCanBeMovedAnyPush(g, dRow, dColumn) ==
    ~In(<<g.state.player_pos[1] + dRow, g.state.player_pos[2] + dColumn>>,
        g.walls)

\* Graph._playerCanBeMoved without lines 492-493: a box behind the box does
\* not stop the push.
Graph_playerCanBeMovedNoBox(g, dRow, dColumn) ==
    LET rowTo == g.state.player_pos[1] + dRow
        columnTo == g.state.player_pos[2] + dColumn
    IN  IF In(<<rowTo, columnTo>>, g.walls) THEN FALSE
        ELSE IF In(<<rowTo, columnTo>>, g.state.boxes_pos)
        THEN ~In(<<rowTo + dRow, columnTo + dColumn>>, g.walls)
        ELSE TRUE

\* Graph._playerCanBeMoved without lines 490-491: a wall behind the box does
\* not stop the push.
Graph_playerCanBeMovedNoWall(g, dRow, dColumn) ==
    LET rowTo == g.state.player_pos[1] + dRow
        columnTo == g.state.player_pos[2] + dColumn
    IN  IF In(<<rowTo, columnTo>>, g.walls) THEN FALSE
        ELSE IF In(<<rowTo, columnTo>>, g.state.boxes_pos)
        THEN ~In(<<rowTo + dRow, columnTo + dColumn>>, g.state.boxes_pos)
        ELSE TRUE

\* Graph._playerCanBeMoved
Graph_playerCanBeMoved(g, dRow, dColumn) ==
    LET row == g.state.player_pos[1]
        column == g.state.player_pos[2]
        rowTo == row + dRow
        columnTo == column + dColumn
        boxRowTo == rowTo + dRow
        boxColumnTo == columnTo + dColumn
    IN  IF In(<<rowTo, columnTo>>, g.walls) THEN FALSE
        ELSE IF In(<<rowTo, columnTo>>, g.state.boxes_pos)
        THEN IF In(<<boxRowTo, boxColumnTo>>, g.walls) THEN FALSE
             ELSE IF In(<<boxRowTo, boxColumnTo>>, g.state.boxes_pos) THEN FALSE
             ELSE TRUE
        ELSE TRUE

\* Graph._movePlayer without lines 513-519: the player steps on the box
\* and the box stays.
Graph_movePlayerNoPush(g, dRow, dColumn) ==
    [g EXCEPT !.state.player_pos = <<@[1] + dRow, @[2] + dColumn>>]

\* Graph._movePlayer without line 518: the pushed box is removed from the
\* tuple and not put back.
Graph_movePlayerDropBox(g, dRow, dColumn) ==
    LET rowTo == g.state.player_pos[1] + dRow
        columnTo == g.state.player_pos[2] + dColumn
    IN  [g EXCEPT !.state =
            [player_pos |-> <<rowTo, columnTo>>,
             boxes_pos |-> IF In(<<rowTo, columnTo>>, g.state.boxes_pos)
                           THEN ListRemove(g.state.boxes_pos, <<rowTo, columnTo>>)
                           ELSE g.state.boxes_pos]]

\* Graph._movePlayer: a pushed box is removed from the tuple and appended
\* to its end.
Graph_movePlayer(g, dRow, dColumn) ==
    LET row == g.state.player_pos[1]
        column == g.state.player_pos[2]
        rowTo == row + dRow
        columnTo == column + dColumn
        boxRowTo == rowTo + dRow
        boxColumnTo == columnTo + dColumn
        bs == g.state.boxes_pos
    IN  [g EXCEPT !.state =
            [player_pos |-> <<rowTo, columnTo>>,
             boxes_pos |->
                IF In(<<rowTo, columnTo>>, bs)
                THEN Append(ListRemove(bs, <<rowTo, columnTo>>),
                            <<boxRowTo, boxColumnTo>>)
                ELSE bs]]

\* Graph._isSolved with any() in place of all(): one box on a goal is enough.
Graph_isSolvedAny(g) ==
    \E i \in 1..Len(g.state.boxes_pos) : In(g.state.boxes_pos[i], g.goal)

\* Graph._isSolved
Graph_isSolved(g) ==
    \A i \in 1..Len(g.state.boxes_pos) : In(g.state.boxes_pos[i], g.goal)

\* Graph._reset
Graph_reset(g) ==
    [g EXCEPT !.frontier = <<>>, !.explored = <<>>, !.solution = <<>>]

\* Graph.run, lines 618-620: the nodes from the child up to the root.
RECURSIVE ParentChain(_, _)
ParentChain(nodes, n) ==
    IF n = 0 THEN <<>> ELSE <<n>> \o ParentChain(nodes, nodes[n].parent)

\* Graph.run, line 615 with only the player's coordinate compared.
KnownPlayer(g, state) ==
    \E i \in 1..Len(g.frontier \o g.explored) :
        g.nodes[(g.frontier \o g.explored)[i]].state.player_pos = state.player_pos

\* Graph.run, line 615: the child's state is the state of some node of
\* frontier + explored (dict equality: the box tuples are compared in order).
KnownState(g, state) ==
    \E i \in 1..Len(g.frontier \o g.explored) :
        g.nodes[(g.frontier \o g.explored)[i]].state = state

\* Graph.run, lines 624-629 with the children of BFS appended like those of
\* DFS.
InsertAtBack(g, child) == [g EXCEPT !.frontier = Append(@, child)]

\* Graph.run, lines 624-629: the child is put on the frontier, in front for
\* BFS and at the back for DFS.
Insert(g, child) ==
    IF g.algorithm = BFS THEN [g EXCEPT !.frontier = <<child>> \o @]
    ELSE IF g.algorithm = DFS THEN [g EXCEPT !.frontier = Append(@, child)]
    ELSE g

\* Graph.run, lines 609-630: the for loop over the directions for the node
\* popped from the frontier; it stops at the first child that is solved.
RECURSIVE Expand(_, _, _)
Expand(g, node, directions) ==
    IF directions = <<>> THEN g
    ELSE
    LET dRow == Head(directions)[1]
        dColumn == Head(directions)[2]
        moved == Graph_movePlayer(g, dRow, dColumn)
        child == Len(g.nodes) + 1
        made == [moved EXCEPT !.nodes = Append(@, Node(g.nodes, moved.state, node))]
        restored(h) == [h EXCEPT !.state = g.nodes[node].state]
    IN  IF ~Graph_playerCanBeMoved(g, dRow, dColumn)
        THEN Expand(g, node, Tail(directions))
        ELSE IF KnownState(g, moved.state)
        THEN Expand(restored(moved), node, Tail(directions))
        ELSE IF Graph_isSolved(moved)
        THEN [made EXCEPT
                !.solution = Reversed(g.solution \o ParentChain(made.nodes, child)),
                !.pc = "finished"]
        ELSE Expand(restored(Insert(made, child)), node, Tail(directions))

\* Graph.run with a test of the root before the loop: a start state that is
\* solved is returned as a path of one node.
RunEnterTestsRoot(g) ==
    LET h == Graph_reset(g)
        r == [h EXCEPT !.nodes = <<Node(<<>>, h.state, 0)>>]
    IN  IF Graph_isSolved(r)
        THEN [r EXCEPT !.solution = <<1>>, !.returned = <<1>>, !.pc = "finished"]
        ELSE [r EXCEPT !.frontier = <<1>>, !.pc = "run"]

\* Graph.run, lines 598-600: the collections are cleared and the root node
\* is put on the frontier.
RunEnter(g) ==
    LET h == Graph_reset(g)
    IN  [h EXCEPT !.nodes = <<Node(<<>>, h.state, 0)>>,
                  !.frontier = <<1>>,
                  !.pc = "run"]

\* Graph.run, lines 606-608 with the list shuffled whatever the flag says.
DirectionOrdersShuffled(g) == Shuffles

\* Graph.run, lines 606-608: the orders in which one expansion may visit the
\* directions.
DirectionOrders(g) == IF g.deterministic THEN {DIRECTIONS} ELSE Shuffles

\* Graph.run with pop(0) in line 603: the node is taken from the front of
\* the frontier.
RunLoopPopFront(g, directions) ==
    LET node == g.frontier[1]
        popped == [g EXCEPT !.frontier = Tail(@),
                            !.state = g.nodes[node].state,
                            !.explored = Append(@, node)]
        after == Expand(popped, node, directions)
        left == IF after.pc = "run" /\ after.frontier = <<>>
                THEN [after EXCEPT !.pc = "finished"]
                ELSE after
    IN  [left EXCEPT !.returned = IF left.pc = "finished" THEN left.solution ELSE @]

\* Graph.run, lines 602-630: one pass of the while loop, with the loop test
\* that follows it; directions is the order of this expansion.
RunLoop(g, directions) ==
    LET node == g.frontier[Len(g.frontier)]
        popped == [g EXCEPT !.frontier = SubSeq(@, 1, Len(@) - 1),
                            !.state = g.nodes[node].state,
                            !.explored = Append(@, node)]
        after == Expand(popped, node, directions)
        left == IF after.pc = "run" /\ after.frontier = <<>>
                THEN [after EXCEPT !.pc = "finished"]
                ELSE after
    IN  [left EXCEPT !.returned = IF left.pc = "finished" THEN left.solution ELSE @]

\* One pass of the loop of run() of graph i as it would be if the Graph held
\* the Level's own player and boxes instead of the copies of Level.state:
\* the live board follows the state the search is working on.
Graph_runOnBoard(w, i, directions) ==
    LET g == RunLoop(w.graphs[i], directions)
    IN  [w EXCEPT !.graphs[i] = g,
                  !.player = g.state.player_pos,
                  !.boxes = g.state.boxes_pos]

\* One pass of the loop of run() of graph i: the Graph works on the state,
\* goal and wall tuples it was created with (lines 462-464), and nothing of
\* the Level but the graph changes.
Graph_run(w, i, directions) ==
    [w EXCEPT !.graphs[i] = RunLoop(@, directions)]

\* Graph.bfs
Graph_bfs(g, deterministic) ==
    RunEnter([g EXCEPT !.algorithm = BFS, !.deterministic = deterministic])

\* Graph.dfs
Graph_dfs(g, deterministic) ==
    RunEnter([g EXCEPT !.algorithm = DFS, !.deterministic = deterministic])

\* The None returned by Graph.solutionStep, written as the empty tuple.
NoStep == <<>>

\* Graph.solutionStep with "> 2" in the test of line 578: the step to the
\* last node is never handed out.
Graph_solutionStepShort(g) ==
    IF Len(g.solution) > 2
    THEN [graph |-> [g EXCEPT !.solution = Tail(@)],
          step |-> <<g.nodes[g.solution[2]].state.player_pos[1]
                        - g.nodes[g.solution[1]].state.player_pos[1],
                     g.nodes[g.solution[2]].state.player_pos[2]
                        - g.nodes[g.solution[1]].state.player_pos[2]>>]
    ELSE [graph |-> g, step |-> NoStep]

\* Graph.solutionStep: the step, or NoStep, and the graph after the call.
Graph_solutionStep(g) ==
    IF Len(g.solution) > 1
    THEN LET node == g.nodes[g.solution[1]]
             rest == Tail(g.solution)
             nodeNext == g.nodes[rest[1]]
         IN  [graph |-> [g EXCEPT !.solution = rest],
              step |-> IF Len(rest) > 0
                       THEN <<nodeNext.state.player_pos[1] - node.state.player_pos[1],
                              nodeNext.state.player_pos[2] - node.state.player_pos[2]>>
                       ELSE NoStep]
    ELSE [graph |-> g, step |-> NoStep]

----------------------------------------------------------------------------
(* The search requests and the replay (class Level). *)

\* Level._createGraph
Level_createGraph(w) ==
    [w EXCEPT !.graphs = Append(@, Graph(Level_state(w), goalCoords, wallsCoords, manual))]

\* Level.bfs
Level_bfs(w, deterministic) ==
    LET w1 == Level_createGraph(w)
    IN  [w1 EXCEPT !.graphs[Len(w1.graphs)] = Graph_bfs(@, deterministic)]

\* Level.dfs
Level_dfs(w, deterministic) ==
    LET w1 == Level_createGraph(w)
    IN  [w1 EXCEPT !.graphs[Len(w1.graphs)] = Graph_dfs(@, deterministic)]

\* Level._nextStep: the step is asked of Level._graph, the last graph created.
Level_nextStep(w) ==
    LET n == Len(w.graphs)
        r == Graph_solutionStep(w.graphs[n])
        w1 == [w EXCEPT !.graphs[n] = r.graph]
    IN  IF r.step # NoStep
        THEN Level_movePlayer(w1, r.step[1], r.step[2], TRUE)
        ELSE [w1 EXCEPT !.connected = IF @ > 0 THEN @ - 1 ELSE 0]

\* Level._playSolution
Level_playSolution(w) ==
    LET w1 == Level_reset(w, <<>>)
        w2 == [w1 EXCEPT !.connected = @ + 1]
    IN  Level_nextStep(w2)

\* The emission of Player.moveFinished: every connection made by
\* _playSolution calls _nextStep once.
RECURSIVE EmitMoveFinished(_, _)
EmitMoveFinished(w, n) ==
    IF n = 0 THEN w ELSE EmitMoveFinished(Level_nextStep(w), n - 1)

----------------------------------------------------------------------------
(* The state machine. *)

\* Level.__init__ on a level file.  When the constructor raises there is no
\* Level: the fields stay empty and no handler can be called.
Load(file) ==
    /\ levelFile = file
    /\ level = openLevelFile(file)
    /\ raised = Level_initRaises(level)
    /\ tiles = IF raised = None THEN InitTiles(level) ELSE <<>>
    /\ player = IF raised = None THEN InitPlayer(level) ELSE <<>>
    /\ boxes = IF raised = None THEN InitBoxes(level) ELSE <<>>
    /\ origState = [player_pos |-> player, boxes_pos |-> boxes]
    /\ graphs = <<>>
    /\ connected = 0
    /\ animating = FALSE
    /\ emitted = <<>>
    /\ manual = 0
    /\ NoScene

Init == \E file \in LevelFiles : Load(file)

\* The world after a handler becomes the next state.
Becomes(w) ==
    /\ player' = w.player
    /\ boxes' = w.boxes
    /\ graphs' = w.graphs
    /\ connected' = w.connected
    /\ animating' = w.animating

\* The input dispatcher calls Level.movePlayer for an arrow key.
MovePlayer(d) ==
    /\ raised = None
    /\ UNCHANGED sceneVars
    /\ manual < MaxManual
    /\ Becomes(Level_movePlayer(World, d[1], d[2], FALSE))
    /\ manual' = manual + 1
    /\ UNCHANGED <<levelFile, raised, level, tiles, origState, emitted>>

\* The input dispatcher calls Level.reset().
Reset ==
    /\ raised = None
    /\ UNCHANGED sceneVars
    /\ manual < MaxManual
    /\ Becomes(Level_reset(World, <<>>))
    /\ manual' = manual + 1
    /\ UNCHANGED <<levelFile, raised, level, tiles, origState, emitted>>

\* Level._createGraph, line 410: the assignment drops the last reference of
\* Level to the Graph created before.  When its thread is still inside run()
\* the QThread object is destroyed while running, which Qt answers with a
\* fatal error, unless the call of run() keeps the object alive.
GraphDroppedRunning == graphs # <<>> /\ graphs[Len(graphs)].pc = "run"

QThreadDestroyed == "QThread: Destroyed while thread is still running"

\* The input dispatcher calls Level.bfs; the thread starts and enters run().
\* A search still running either keeps running or ends the program.
Bfs(deterministic) ==
    /\ raised = None
    /\ UNCHANGED sceneVars
    /\ Len(graphs) < MaxSearches
    /\ \/ /\ Becomes(Level_bfs(World, deterministic))
          /\ emitted' = Append(emitted, "algorithmStarted")
          /\ UNCHANGED <<levelFile, raised, level, tiles, origState, manual>>
       \/ /\ GraphDroppedRunning
          /\ raised' = QThreadDestroyed
          /\ UNCHANGED <<levelFile, level, tiles, player, boxes, origState,
                         graphs, connected, animating, emitted, manual>>

\* The input dispatcher calls Level.dfs; the thread starts and enters run().
\* A search still running either keeps running or ends the program.
Dfs(deterministic) ==
    /\ raised = None
    /\ UNCHANGED sceneVars
    /\ Len(graphs) < MaxSearches
    /\ \/ /\ Becomes(Level_dfs(World, deterministic))
          /\ emitted' = Append(emitted, "algorithmStarted")
          /\ UNCHANGED <<levelFile, raised, level, tiles, origState, manual>>
       \/ /\ GraphDroppedRunning
          /\ raised' = QThreadDestroyed
          /\ UNCHANGED <<levelFile, level, tiles, player, boxes, origState,
                         graphs, connected, animating, emitted, manual>>

\* The thread of graph i makes one pass of the loop of run().
RunStep(i) ==
    /\ raised = None
    /\ UNCHANGED sceneVars
    /\ graphs[i].pc = "run"
    /\ \E directions \in DirectionOrders(graphs[i]) :
          Becomes(Graph_run(World, i, directions))
    /\ UNCHANGED <<levelFile, raised, level, tiles, origState, emitted, manual>>

\* The finished signal of graph i is delivered in the foreground:
\* _playSolution runs, then algorithmFinished is emitted.
Finished(i) ==
    /\ raised = None
    /\ UNCHANGED sceneVars
    /\ graphs[i].pc = "finished"
    /\ Becomes(Level_playSolution([World EXCEPT !.graphs[i].pc = "handled"]))
    /\ emitted' = Append(emitted, "algorithmFinished")
    /\ UNCHANGED <<levelFile, raised, level, tiles, origState, manual>>

\* The animation of the player ends and moveFinished is emitted.
MoveFinished ==
    /\ raised = None
    /\ UNCHANGED sceneVars
    /\ animating
    /\ Becomes(EmitMoveFinished([World EXCEPT !.animating = FALSE], connected))
    /\ UNCHANGED <<levelFile, raised, level, tiles, origState, emitted, manual>>

Next ==
    \/ \E d \in {DIRECTIONS[k] : k \in 1..4} : MovePlayer(d)
    \/ Reset
    \/ \E deterministic \in BOOLEAN : Bfs(deterministic)
    \/ \E deterministic \in BOOLEAN : Dfs(deterministic)
    \/ \E i \in 1..Len(graphs) : RunStep(i)
    \/ \E i \in 1..Len(graphs) : Finished(i)
    \/ MoveFinished

Spec == Init /\ [][Next]_vars

----------------------------------------------------------------------------
(* One search, requested after the manual moves: the runs of Graph.run     *)
(* from every state the board can be in when the search is requested.      *)

InitSearch == \E file \in SearchLevelFiles : Load(file)

NextSearch ==
    \/ graphs = <<>> /\ \E d \in {DIRECTIONS[k] : k \in 1..4} : MovePlayer(d)
    \/ graphs = <<>> /\ \E deterministic \in BOOLEAN : Bfs(deterministic)
    \/ graphs = <<>> /\ \E deterministic \in BOOLEAN : Dfs(deterministic)
    \/ Len(graphs) = 1 /\ RunStep(1)

SearchSpec == InitSearch /\ [][NextSearch]_vars

\* The thread of a started search is scheduled until run() returns: weak
\* fairness of RunStep(1), written with its enabling condition spelled out (a
\* pass of the loop can be made exactly while the thread is inside run()).
RunFairness ==
    \/ []<>~(Len(graphs) = 1 /\ graphs[1].pc = "run")
    \/ []<><<Len(graphs) = 1 /\ RunStep(1)>>_vars

LiveSearchSpec == SearchSpec /\ RunFairness

----------------------------------------------------------------------------
(* The board alone: movePlayer and reset calls on every board of           *)
(* BoardLevelFiles, MaxMoves calls in a row, no search.                    *)

InitBoard == \E file \in BoardLevelFiles : Load(file)

\* The input dispatcher calls Level.movePlayer for an arrow key.
BoardMovePlayer(d) ==
    /\ raised = None
    /\ UNCHANGED sceneVars
    /\ manual < MaxMoves
    /\ Becomes(Level_movePlayer(World, d[1], d[2], FALSE))
    /\ manual' = manual + 1
    /\ UNCHANGED <<levelFile, raised, level, tiles, origState, emitted>>

\* The input dispatcher calls Level.reset().
BoardReset ==
    /\ raised = None
    /\ UNCHANGED sceneVars
    /\ manual < MaxMoves
    /\ Becomes(Level_reset(World, <<>>))
    /\ manual' = manual + 1
    /\ UNCHANGED <<levelFile, raised, level, tiles, origState, emitted>>

NextBoard ==
    \/ \E d \in {DIRECTIONS[k] : k \in 1..4} : BoardMovePlayer(d)
    \/ BoardReset

BoardSpec == InitBoard /\ [][NextBoard]_vars

----------------------------------------------------------------------------
(* Searches and replays between key presses and resets on one small board, *)
(* MaxMoves movePlayer/reset calls in a row.                               *)

\* The box stands on its goal; pushing it to the right leaves it against
\* the wall, from where no move brings it back.
DeadEndBoard ==
    << <<"#","#","#","#","#","#">>,
       <<"#"," ","@","*"," ","#">>,
       <<"#","#","#","#","#","#">> >>

InitReplay == Load(DeadEndBoard)

NextReplay ==
    \/ \E d \in {DIRECTIONS[k] : k \in 1..4} : BoardMovePlayer(d)
    \/ BoardReset
    \/ \E deterministic \in BOOLEAN : Bfs(deterministic)
    \/ \E deterministic \in BOOLEAN : Dfs(deterministic)
    \/ \E i \in 1..Len(graphs) : RunStep(i)
    \/ \E i \in 1..Len(graphs) : Finished(i)
    \/ MoveFinished

ReplaySpec == InitReplay /\ [][NextReplay]_vars

----------------------------------------------------------------------------
(* The scene model: class DataModel of data_model.py with the tiles of     *)
(* tile.py (PassiveTile, Floor, Player, Box).  The tiles take the scene as *)
(* the level they look around in (ActiveTile._level): DataModel has the    *)
(* tileOnCoords and box methods they call.  A scene s is a record of the   *)
(* fields of the DataModel; an operator that models a method takes the     *)
(* scene and gives the scene after the call.                               *)

Scene == [tiles |-> sceneTiles, player |-> scenePlayer, boxes |-> sceneBoxes,
          moveLock |-> moveLock, raised |-> raised]

\* DataModel.LEVEL
DataModel_LEVEL ==
    LET WL == WALL  PL == PLAYER  BX == BOX  BG == BOX_ON_GOAL
        GL == GOAL  FL == FLOOR  BK == BACKGROUND
    IN  << <<BK, BK, BK, BK, BK, BK, BK, BK>>,
           <<BK, WL, WL, WL, WL, BK, BK, BK>>,
           <<BK, WL, FL, GL, WL, BK, BK, BK>>,
           <<BK, WL, FL, FL, WL, WL, WL, BK>>,
           <<BK, WL, BG, PL, FL, FL, WL, BK>>,
           <<BK, WL, FL, FL, BX, FL, WL, BK>>,
           <<BK, WL, FL, FL, WL, WL, WL, BK>>,
           <<BK, WL, WL, WL, WL, BK, BK, BK>>,
           <<BK, BK, BK, BK, BK, BK, BK, BK>> >>

\* PassiveTile.__init__: a wall or background tile; it has no flags.
PassiveTile(tileType, row, column) ==
    [class |-> "PassiveTile", tileType |-> tileType, row |-> row, column |-> column]

\* Floor.__init__: the flags are read off the tile type of the cell.
Floor(tileType, row, column) ==
    [class |-> "Floor", row |-> row, column |-> column,
     hasBox |-> tileType \in {BOX, BOX_ON_GOAL},
     hasPlayer |-> tileType \in {PLAYER, PLAYER_ON_GOAL},
     isGoal |-> tileType \in {GOAL, BOX_ON_GOAL, PLAYER_ON_GOAL}]

\* PassiveTile.isFloor (always False) and Floor.isFloor (always True).
Tile_isFloor(tile) == tile.class = "Floor"

\* DataModel.__init__, lines 55-76: one tile per cell, in reading order.
RECURSIVE SceneTilesOf(_)
SceneTilesOf(cells) ==
    IF cells = <<>> THEN <<>>
    ELSE <<IF Head(cells).tileType \in {WALL, BACKGROUND}
           THEN PassiveTile(Head(cells).tileType, Head(cells).row, Head(cells).column)
           ELSE Floor(Head(cells).tileType, Head(cells).row, Head(cells).column)>>
         \o SceneTilesOf(Tail(cells))

\* DataModel.tileOnCoords: the first tile on these coordinates; 0 when the
\* list is empty and [0] raises IndexError.
DataModel_tileOnCoords(s, row, column) ==
    LET hit(i) == s.tiles[i].row = row /\ s.tiles[i].column = column
    IN  IF \E i \in 1..Len(s.tiles) : hit(i)
        THEN CHOOSE i \in 1..Len(s.tiles) : hit(i) /\ \A j \in 1..(i - 1) : ~hit(j)
        ELSE 0

\* DataModel.box: the first box on these coordinates; 0 when the list is
\* empty and [0] raises IndexError.
DataModel_box(s, row, column) ==
    LET hit(i) == s.boxes[i] = <<row, column>>
    IN  IF \E i \in 1..Len(s.boxes) : hit(i)
        THEN CHOOSE i \in 1..Len(s.boxes) : hit(i) /\ \A j \in 1..(i - 1) : ~hit(j)
        ELSE 0

\* DataModel.lockMoving
DataModel_lockMoving(s) == [s EXCEPT !.moveLock = TRUE]

\* DataModel.unlockMoving
DataModel_unlockMoving(s) == [s EXCEPT !.moveLock = FALSE]

\* Box.canBeMoved of box b.
BoxTile_canBeMoved(s, b, dRow, dColumn) ==
    LET rowTo == s.boxes[b][1] + dRow
        columnTo == s.boxes[b][2] + dColumn
        tileTo == s.tiles[DataModel_tileOnCoords(s, rowTo, columnTo)]
    IN  IF Tile_isFloor(tileTo) THEN ~tileTo.hasBox ELSE FALSE

\* Player.canBeMoved
PlayerTile_canBeMoved(s, dRow, dColumn) ==
    LET rowTo == s.player[1] + dRow
        columnTo == s.player[2] + dColumn
        tileTo == s.tiles[DataModel_tileOnCoords(s, rowTo, columnTo)]
    IN  IF Tile_isFloor(tileTo)
        THEN IF tileTo.hasBox
             THEN BoxTile_canBeMoved(s, DataModel_box(s, rowTo, columnTo), dRow, dColumn)
             ELSE TRUE
        ELSE FALSE

\* Player.canBeMoved raises IndexError: a lookup of tileOnCoords or box finds
\* nothing.
PlayerTile_canBeMovedRaises(s, dRow, dColumn) ==
    LET rowTo == s.player[1] + dRow
        columnTo == s.player[2] + dColumn
        to == DataModel_tileOnCoords(s, rowTo, columnTo)
    IN  \/ to = 0
        \/ /\ Tile_isFloor(s.tiles[to])
           /\ s.tiles[to].hasBox
           /\ \/ DataModel_box(s, rowTo, columnTo) = 0
              \/ DataModel_tileOnCoords(s, rowTo + dRow, columnTo + dColumn) = 0

\* Box.setCoords without the pushBoxOut of line 413: the tile the box leaves
\* keeps its flag.
BoxTile_setCoordsNoPushOut(s, b, row, column) ==
    [s EXCEPT !.tiles[DataModel_tileOnCoords(s, row, column)].hasBox = TRUE,
              !.boxes[b] = <<row, column>>]

\* Box.setCoords of box b: pushBoxOut on the tile it leaves, pushBoxIn on
\* the tile it enters, then ActiveTile.setCoords.
BoxTile_setCoords(s, b, row, column) ==
    [s EXCEPT !.tiles[DataModel_tileOnCoords(s, s.boxes[b][1], s.boxes[b][2])].hasBox = FALSE,
              !.tiles[DataModel_tileOnCoords(s, row, column)].hasBox = TRUE,
              !.boxes[b] = <<row, column>>]

\* Box.move
BoxTile_move(s, b, dRow, dColumn) ==
    BoxTile_setCoords(s, b, s.boxes[b][1] + dRow, s.boxes[b][2] + dColumn)

\* Player.setCoords: movePlayerOut on the tile the player leaves,
\* movePlayerIn on the tile it enters, then ActiveTile.setCoords.
PlayerTile_setCoords(s, row, column) ==
    [s EXCEPT !.tiles[DataModel_tileOnCoords(s, s.player[1], s.player[2])].hasPlayer = FALSE,
              !.tiles[DataModel_tileOnCoords(s, row, column)].hasPlayer = TRUE,
              !.player = <<row, column>>]

\* Player.move: no check is made.
PlayerTile_move(s, dRow, dColumn, animated) ==
    LET rowTo == s.player[1] + dRow
        columnTo == s.player[2] + dColumn
        tileTo == s.tiles[DataModel_tileOnCoords(s, rowTo, columnTo)]
        s1 == IF tileTo.hasBox
              THEN BoxTile_move(s, DataModel_box(s, rowTo, columnTo), dRow, dColumn)
              ELSE s
        s2 == IF animated THEN DataModel_lockMoving(s1) ELSE s1
    IN  PlayerTile_setCoords(s2, rowTo, columnTo)

\* DataModel._movePlayer
DataModel_movePlayer(s, dRow, dColumn) ==
    IF PlayerTile_canBeMovedRaises(s, dRow, dColumn)
    THEN [s EXCEPT !.raised = "IndexError"]
    ELSE IF PlayerTile_canBeMoved(s, dRow, dColumn)
    THEN DataModel_lockMoving(PlayerTile_move(s, dRow, dColumn, FALSE))
    ELSE s

\* The keys: the four arrows and one key that is no arrow.
Keys == {"Key_Up", "Key_Down", "Key_Left", "Key_Right", "Key_Space"}

\* DataModel.keyPressEvent without the test of the lock in line 143.
DataModel_keyPressEventUnlocked(s, key) ==
    IF key = "Key_Up" THEN DataModel_movePlayer(s, -1, 0)
    ELSE IF key = "Key_Down" THEN DataModel_movePlayer(s, 1, 0)
    ELSE IF key = "Key_Left" THEN DataModel_movePlayer(s, 0, -1)
    ELSE IF key = "Key_Right" THEN DataModel_movePlayer(s, 0, 1)
    ELSE s

\* DataModel.keyPressEvent
DataModel_keyPressEvent(s, key) ==
    IF ~s.moveLock
    THEN IF key = "Key_Up" THEN DataModel_movePlayer(s, -1, 0)
         ELSE IF key = "Key_Down" THEN DataModel_movePlayer(s, 1, 0)
         ELSE IF key = "Key_Left" THEN DataModel_movePlayer(s, 0, -1)
         ELSE IF key = "Key_Right" THEN DataModel_movePlayer(s, 0, 1)
         ELSE s
    ELSE s

\* DataModel.__init__ on DataModel.LEVEL; there is no Level.
InitScene ==
    /\ levelFile = <<>>
    /\ raised = None
    /\ level = <<>>
    /\ tiles = <<>>
    /\ player = <<>>
    /\ boxes = <<>>
    /\ origState = [player_pos |-> <<>>, boxes_pos |-> <<>>]
    /\ graphs = <<>>
    /\ connected = 0
    /\ animating = FALSE
    /\ emitted = <<>>
    /\ manual = 0
    /\ sceneTiles = SceneTilesOf(Cells(DataModel_LEVEL))
    /\ scenePlayer = InitPlayer(DataModel_LEVEL)
    /\ sceneBoxes = BoxesOf(Cells(DataModel_LEVEL))
    /\ moveLock = FALSE

\* The scene after a handler becomes the next state.
SceneBecomes(s) ==
    /\ sceneTiles' = s.tiles
    /\ scenePlayer' = s.player
    /\ sceneBoxes' = s.boxes
    /\ moveLock' = s.moveLock
    /\ raised' = s.raised
    /\ UNCHANGED <<levelFile, level, tiles, player, boxes, origState, graphs,
                   connected, animating, emitted, manual>>

\* The scene receives a key press.
KeyPress(key) ==
    /\ raised = None
    /\ SceneBecomes(DataModel_keyPressEvent(Scene, key))

\* DataModel.unlockMoving: a public method of the scene, which a caller may
\* call at any time between two key presses.
UnlockMoving ==
    /\ raised = None
    /\ SceneBecomes(DataModel_unlockMoving(Scene))

NextScene ==
    \/ \E key \in Keys : KeyPress(key)
    \/ UnlockMoving

SceneSpec == InitScene /\ [][NextScene]_vars

----------------------------------------------------------------------------
(* The rules of the puzzle, stated over positions: a position is the       *)
(* player's coordinate and the SET of box coordinates.  The properties     *)
(* below compare the program with these rules.                             *)

WallSet == {<<tiles[i].row, tiles[i].column>> :
                i \in {k \in 1..Len(tiles) : tiles[k].tileType \in {WALL, BACKGROUND}}}

GoalSet == {<<tiles[i].row, tiles[i].column>> :
                i \in {k \in 1..Len(tiles) : tiles[k].tileType = GOAL}}

FourDirections == {<<0, -1>>, <<0, 1>>, <<-1, 0>>, <<1, 0>>}

Position(state) ==
    [player |-> state.player_pos,
     boxes |-> {state.boxes_pos[i] : i \in 1..Len(state.boxes_pos)}]

Plus(c, d) == <<c[1] + d[1], c[2] + d[2]>>

LegalMove(p, d) ==
    LET to == Plus(p.player, d)
        beyond == Plus(to, d)
    IN  /\ to \notin WallSet
        /\ to \in p.boxes => beyond \notin WallSet /\ beyond \notin p.boxes

AfterMove(p, d) ==
    LET to == Plus(p.player, d)
        beyond == Plus(to, d)
    IN  [player |-> to,
         boxes |-> IF to \in p.boxes THEN (p.boxes \ {to}) \cup {beyond}
                   ELSE p.boxes]

SolvedPosition(p) == p.boxes \subseteq GoalSet

Successors(p) == {AfterMove(p, d) : d \in {e \in FourDirections : LegalMove(p, e)}}

\* The least number of legal moves from a position of the set ps to a solved
\* position, counted from k; -1 when no solved position can be reached.
RECURSIVE StepsToSolved(_, _, _)
StepsToSolved(ps, seen, k) ==
    IF \E p \in ps : SolvedPosition(p) THEN k
    ELSE LET next == (UNION {Successors(p) : p \in ps}) \ (seen \cup ps)
         IN  IF next = {} THEN -1
             ELSE StepsToSolved(next, seen \cup ps, k + 1)

MinSteps(state) == StepsToSolved({Position(state)}, {}, 0)

\* The states of the nodes of a path of node indices.
PathStates(g, path) == [k \in 1..Len(path) |-> g.nodes[path[k]].state]

\* The state a search was created with: the state of its root node.
StartState(g) == g.nodes[1].state

\* run() of graph i has returned.
Returned(i) == graphs[i].pc \in {"finished", "handled"}

----------------------------------------------------------------------------
(* Properties of one search (SearchSpec): the live board still is in the   *)
(* state the search was requested in.                                      *)

\* C1: a non-empty solution path left by run() starts with the state the
\* search was created with, each of its states follows from the one before
\* by one legal move of the rules, and its last state has every box on a goal.
C1_SolutionPathValid ==
    \A i \in 1..Len(graphs) :
        (graphs[i].pc = "finished" /\ graphs[i].solution # <<>>) =>
            LET path == PathStates(graphs[i], graphs[i].solution)
            IN  /\ path[1] = Level_state(World)
                /\ \A k \in 1..(Len(path) - 1) :
                      \E d \in FourDirections :
                          /\ LegalMove(Position(path[k]), d)
                          /\ AfterMove(Position(path[k]), d) = Position(path[k + 1])
                /\ SolvedPosition(Position(path[Len(path)]))

\* C1 witness: a search has returned a path of at least three steps in which
\* a box was pushed.
C1_Witness ==
    \E i \in 1..Len(graphs) :
        /\ graphs[i].pc = "finished"
        /\ Len(graphs[i].solution) >= 4
        /\ Position(StartState(graphs[i])).boxes
             # Position(graphs[i].nodes[graphs[i].solution[Len(graphs[i].solution)]].state).boxes

\* The number of steps of the path left by run(): -1 when there is no path.
StepsOf(g) == Len(g.solution) - 1

\* C2 (as claimed): whenever a solved state can be reached, the start state
\* included, the path BFS returns has the least number of steps, zero for a
\* start state that is solved.
C2_BfsMinimalFromAnyStart ==
    \A i \in 1..Len(graphs) :
        (graphs[i].pc = "finished" /\ graphs[i].algorithm = BFS
            /\ MinSteps(StartState(graphs[i])) >= 0) =>
            StepsOf(graphs[i]) = MinSteps(StartState(graphs[i]))

\* C2 (amended): from a start state that is not solved and from which a
\* solved state can be reached, the path BFS returns has the least number of
\* steps of all sequences of legal moves to a solved state.
C2_BfsMinimal ==
    \A i \in 1..Len(graphs) :
        (graphs[i].pc = "finished" /\ graphs[i].algorithm = BFS
            /\ MinSteps(StartState(graphs[i])) > 0) =>
            StepsOf(graphs[i]) = MinSteps(StartState(graphs[i]))

\* C2 witness: BFS has returned a path of at least three steps, the least
\* number for its start state.
C2_Witness ==
    \E i \in 1..Len(graphs) :
        /\ graphs[i].pc = "finished" /\ graphs[i].algorithm = BFS
        /\ StepsOf(graphs[i]) >= 3
        /\ StepsOf(graphs[i]) = MinSteps(StartState(graphs[i]))

\* The one search of SearchSpec is inside the loop of run().
Running == Len(graphs) = 1 /\ graphs[1].pc = "run"

\* The one search of SearchSpec has left run().
Done == Len(graphs) = 1 /\ graphs[1].pc = "finished"

\* The last state of the path left by run() has every box on a goal.
EndsSolved(g) ==
    /\ g.solution # <<>>
    /\ SolvedPosition(Position(g.nodes[g.solution[Len(g.solution)]].state))

Known(g) == g.frontier \o g.explored

\* C6: at every point of a search no position (player coordinate and set of
\* box coordinates) is the state of two nodes of explored and frontier
\* together.
C6_NoDuplicateStates ==
    \A i \in 1..Len(graphs) :
        \A a, b \in 1..Len(Known(graphs[i])) :
            a # b =>
                Position(graphs[i].nodes[Known(graphs[i])[a]].state)
                    # Position(graphs[i].nodes[Known(graphs[i])[b]].state)

\* C7: the duplicate test of line 615 treats states with the same player
\* coordinate and the same set of box coordinates as equal: every child of a
\* node of the search whose position is the position of a node in frontier or
\* explored is found there by the test, whatever the order of the pushes
\* that led to the two states.
C7_DuplicateTestBySet ==
    \A i \in 1..Len(graphs) :
        \A n \in 1..Len(graphs[i].nodes) : \A k \in 1..4 :
            LET at == [graphs[i] EXCEPT !.state = graphs[i].nodes[n].state]
                dRow == DIRECTIONS[k][1]
                dColumn == DIRECTIONS[k][2]
                child == Graph_movePlayer(at, dRow, dColumn).state
            IN  (/\ Graph_playerCanBeMoved(at, dRow, dColumn)
                 /\ \E m \in 1..Len(Known(graphs[i])) :
                       Position(graphs[i].nodes[Known(graphs[i])[m]].state)
                           = Position(child))
                => KnownState(graphs[i], child)

----------------------------------------------------------------------------
(* Properties of the Level with its searches and the replay (Spec). *)

\* The signals of Level that every finished search is announced with.
SearchSignals == {"algorithmStarted", "algorithmFinished"}

\* C5: a search that ended with an empty frontier and no solution is
\* signalled as such to the caller: once its end has been handled, the caller
\* has received a signal that a search with a solution does not send.
C5_ExhaustionSignalled ==
    \A i \in 1..Len(graphs) :
        (graphs[i].pc = "handled" /\ graphs[i].returned = <<>>) =>
            \E k \in 1..Len(emitted) : emitted[k] \notin SearchSignals

\* C8: two searches with deterministic set, the same algorithm and the same
\* start state, goals and walls leave run() with the same solution path,
\* state by state; when one of them ends without a path so does the other.
C8_DeterministicRunsAgree ==
    \A i, j \in 1..Len(graphs) :
        (/\ Returned(i) /\ Returned(j)
         /\ graphs[i].deterministic /\ graphs[j].deterministic
         /\ graphs[i].algorithm = graphs[j].algorithm
         /\ StartState(graphs[i]) = StartState(graphs[j])
         /\ graphs[i].goal = graphs[j].goal
         /\ graphs[i].walls = graphs[j].walls)
        => PathStates(graphs[i], graphs[i].returned)
               = PathStates(graphs[j], graphs[j].returned)

\* C8 witness: two deterministic searches with the same algorithm and the
\* same start state have both returned a path of at least three steps.
C8_Witness ==
    \E i, j \in 1..Len(graphs) :
        /\ i # j
        /\ Returned(i) /\ Returned(j)
        /\ graphs[i].deterministic /\ graphs[j].deterministic
        /\ graphs[i].algorithm = graphs[j].algorithm
        /\ StartState(graphs[i]) = StartState(graphs[j])
        /\ Len(graphs[i].returned) >= 4
        /\ graphs[j].returned # <<>>

\* C10: a search requested after manual moves has found a solution and its
\* replay has delivered its last step (no step is left in the path and no
\* animation is in flight), with no input in between: the board is solved.
C10_ReplayEndsSolved ==
    (/\ Len(graphs) = 1
     /\ graphs[1].pc = "handled"
     /\ graphs[1].returned # <<>>
     /\ graphs[1].requestedAt = manual
     /\ Len(graphs[1].solution) <= 1
     /\ ~animating)
    => Level_isSolved(World)

----------------------------------------------------------------------------
(* The legality check of the search against the one of the live board. *)

\* The puzzle states at hand: the state of the live board and the state of
\* every node of every search.
StatesAtHand ==
    {Level_state(World)}
        \cup UNION {{graphs[i].nodes[n].state : n \in 1..Len(graphs[i].nodes)} :
                        i \in 1..Len(graphs)}

\* The live board with its player and boxes on the coordinates of state.
BoardIn(state) ==
    [World EXCEPT !.player = state.player_pos, !.boxes = state.boxes_pos]

NextToBox(state, k) ==
    In(<<state.player_pos[1] + DIRECTIONS[k][1],
         state.player_pos[2] + DIRECTIONS[k][2]>>, state.boxes_pos)

----------------------------------------------------------------------------
(* Properties of the board alone (BoardSpec). *)

OnBoard(c) == \E i \in 1..Len(tiles) : tiles[i].row = c[1] /\ tiles[i].column = c[2]

\* The position of the live board.
BoardPosition == Position(Level_state(World))

BoardGraph == Graph(Level_state(World), goalCoords, wallsCoords, manual)

WallsGiven(g) == {g.walls[i] : i \in 1..Len(g.walls)}

\* C14: Graph._playerCanBeMoved is true for a state and a direction exactly
\* when the player's destination is not in the wall set and, when the
\* destination is a box coordinate of the state, the cell beyond it is
\* neither in the wall set nor a box coordinate of the state.
C14_PureLegality ==
    raised = None =>
        \A d \in FourDirections :
            LET to == Plus(player, d)
                beyond == Plus(to, d)
            IN  Graph_playerCanBeMoved(BoardGraph, d[1], d[2])
                    <=> /\ to \notin WallsGiven(BoardGraph)
                        /\ to \in BoardPosition.boxes =>
                              /\ beyond \notin WallsGiven(BoardGraph)
                              /\ beyond \notin BoardPosition.boxes

\* C14 witness: a state reached by a push in which Graph._playerCanBeMoved
\* refuses a direction because a box stands behind the box, and allows
\* another direction.
C14_Witness ==
    /\ raised = None
    /\ manual >= 1
    /\ boxes # origState.boxes_pos
    /\ \E d \in FourDirections :
          /\ Plus(player, d) \in BoardPosition.boxes
          /\ Plus(Plus(player, d), d) \in BoardPosition.boxes
          /\ ~Graph_playerCanBeMoved(BoardGraph, d[1], d[2])
    /\ \E d \in FourDirections : Graph_playerCanBeMoved(BoardGraph, d[1], d[2])

----------------------------------------------------------------------------
(* Properties of the replay and of concurrent searches (Spec). *)

\* The steps handed out by successive calls of Graph.solutionStep on g, up
\* to the first call that returns None.
RECURSIVE StepsHandedOut(_)
StepsHandedOut(g) ==
    LET r == Graph_solutionStep(g)
    IN  IF r.step = NoStep THEN <<>> ELSE <<r.step>> \o StepsHandedOut(r.graph)

\* The graph after those calls.
RECURSIVE AfterSteps(_)
AfterSteps(g) ==
    LET r == Graph_solutionStep(g)
    IN  IF r.step = NoStep THEN r.graph ELSE AfterSteps(r.graph)

\* The differences of the player coordinates of consecutive states.
Deltas(path) ==
    [k \in 1..(IF Len(path) > 0 THEN Len(path) - 1 ELSE 0) |->
        <<path[k + 1].player_pos[1] - path[k].player_pos[1],
          path[k + 1].player_pos[2] - path[k].player_pos[2]>>]

\* C15: on the path of n nodes a search has returned, successive calls of
\* solutionStep hand out exactly max(n-1, 0) steps, the k-th being the
\* player coordinate of node k+1 minus that of node k; every later call
\* returns None and leaves the remaining path as it is.
C15_SolutionSteps ==
    \A i \in 1..Len(graphs) :
        Returned(i) =>
            LET g == [graphs[i] EXCEPT !.solution = graphs[i].returned]
                end == AfterSteps(g)
                later == Graph_solutionStep(end)
            IN  /\ StepsHandedOut(g) = Deltas(PathStates(g, g.returned))
                /\ Len(end.solution) = IF g.returned = <<>> THEN 0 ELSE 1
                /\ later.step = NoStep
                /\ later.graph = end
                /\ Graph_solutionStep(later.graph).step = NoStep

\* C15 witness: the replay has asked for every step of a path of at least
\* four nodes: one node is left and solutionStep returns None.
C15_Witness ==
    \E i \in 1..Len(graphs) :
        /\ i = Len(graphs)
        /\ graphs[i].pc = "handled"
        /\ Len(graphs[i].returned) >= 4
        /\ Len(graphs[i].solution) = 1
        /\ ~animating
        /\ Graph_solutionStep(graphs[i]).step = NoStep

\* The searches whose thread is inside run().
SearchesRunning == {i \in 1..Len(graphs) : graphs[i].pc = "run"}

\* C16: at any time at most one search of the Level is running: a bfs or
\* dfs request made while an earlier search is still running does not lead
\* to two searches running at once.
C16_OneSearchRunning == Cardinality(SearchesRunning) <= 1

\* C17: the replay is strictly sequential, further searches on the same
\* Level included: while a replayed move is on its way, its moveFinished
\* notification will ask the solution player for at most one step, so that
\* no two replay steps are in flight at once.
C17_OneRequestPerMoveFinished == animating => connected <= 1

----------------------------------------------------------------------------
(* The 5x5 board (SearchSpec). *)

\* Search i is a deterministic BFS on the 5x5 board.
Bfs5x5(i) ==
    /\ levelFile = Board5x5
    /\ graphs[i].algorithm = BFS
    /\ graphs[i].deterministic

\* A deterministic BFS on the 5x5 board has left run().
Bfs5x5Done(i) == Bfs5x5(i) /\ graphs[i].pc = "finished"

\* C18 (as claimed): on the 5x5 board deterministic BFS returns a path of
\* legal moves that ends with the box pushed from (3,3) to (1,1), in the
\* least number of steps.
C18_BfsSolves5x5 ==
    \A i \in 1..Len(graphs) :
        Bfs5x5Done(i) =>
            LET path == PathStates(graphs[i], graphs[i].solution)
            IN  /\ path # <<>>
                /\ path[1].boxes_pos = <<<<3, 3>>>>
                /\ path[Len(path)].boxes_pos = <<<<1, 1>>>>
                /\ \A k \in 1..(Len(path) - 1) :
                      \E d \in FourDirections :
                          /\ LegalMove(Position(path[k]), d)
                          /\ AfterMove(Position(path[k]), d) = Position(path[k + 1])
                /\ StepsOf(graphs[i]) = MinSteps(StartState(graphs[i]))

\* C18 (amended): on the 5x5 board the box at (3,3) stands in a corner of
\* the walls and no move pushes it: every state deterministic BFS creates
\* has the box at (3,3), and the search returns no path; it ends with an
\* empty frontier after exploring the eight states the player can reach; no
\* sequence of legal moves reaches a solved state.
C18_BfsFindsNoPathOn5x5 ==
    \A i \in 1..Len(graphs) :
        Bfs5x5(i) =>
            /\ \A n \in 1..Len(graphs[i].nodes) :
                  graphs[i].nodes[n].state.boxes_pos = <<<<3, 3>>>>
            /\ graphs[i].pc = "finished" =>
                  /\ graphs[i].solution = <<>>
                  /\ graphs[i].frontier = <<>>
                  /\ Len(graphs[i].explored) = 8
                  /\ MinSteps(StartState(graphs[i])) = -1

\* C18 witness: a deterministic BFS requested on the 5x5 board, with the
\* player at (2,2), the box at (3,3) and the goal at (1,1), has left run().
C18_Witness ==
    \E i \in 1..Len(graphs) :
        /\ Bfs5x5Done(i)
        /\ StartState(graphs[i]) = [player_pos |-> <<2, 2>>,
                                   boxes_pos |-> <<<<3, 3>>>>]
        /\ graphs[i].goal = <<<<1, 1>>>>

----------------------------------------------------------------------------
(* Solved boards and level files that cannot be loaded (BoardSpec). *)

TileSymbols == {WALL, PLAYER, PLAYER_ON_GOAL, BOX, BOX_ON_GOAL, GOAL, FLOOR,
                BACKGROUND}

\* The level text holds a character that is no tile symbol.
UnknownInText ==
    \E r \in 1..Len(levelFile) : \E c \in 1..Len(levelFile[r]) :
        levelFile[r][c] \notin TileSymbols

\* A character that is no tile symbol is left in a line of the level text
\* once the whitespace at both ends of the line is dropped.
UnknownKept ==
    \E r \in 1..Len(levelFile) :
        LET stripped == Strip(levelFile[r])
        IN  \E c \in 1..Len(stripped) : stripped[c] \notin TileSymbols

\* No Level has been constructed: nothing of a board exists.
NoBoard == raised # None /\ tiles = <<>> /\ player = <<>> /\ boxes = <<>>

----------------------------------------------------------------------------
(* The order of expansion and the frame of a search (Spec). *)

\* The nodes of a graph are numbered in the order run() creates them, so a
\* greater number is a later insertion.
\* Graph i is in a pass of the loop of run() in this step.
Expands(i) ==
    /\ i <= Len(graphs') /\ graphs[i].pc = "run" /\ graphs'[i] # graphs[i]

\* The node expanded in this step by graph i is the one that was at the back
\* of the frontier.
TakenFromBack(i) ==
    /\ graphs'[i].explored
         = Append(graphs[i].explored, graphs[i].frontier[Len(graphs[i].frontier)])
    /\ \A k \in 1..(Len(graphs[i].frontier) - 1) :
          In(graphs[i].frontier[k], graphs'[i].frontier)

\* The frontier and the expansions of graph i so far are in the order of the
\* algorithm.
ExpansionOrder(g) ==
    /\ g.algorithm = BFS =>
          /\ \A k, l \in 1..Len(g.explored) :
                k < l => /\ g.explored[k] < g.explored[l]
                         /\ g.nodes[g.explored[k]].depth <= g.nodes[g.explored[l]].depth
          /\ \A k, l \in 1..Len(g.frontier) :
                k < l => g.frontier[k] > g.frontier[l]
          /\ \A k \in 1..Len(g.explored) : \A l \in 1..Len(g.frontier) :
                g.explored[k] < g.frontier[l]
    /\ g.algorithm = DFS =>
          \A k, l \in 1..Len(g.frontier) :
              k < l => g.frontier[k] < g.frontier[l]

\* C21: a pass of the loop of run() always takes the node at the back of the
\* frontier.  Under BFS the children go to the front, so that the nodes are
\* expanded in the order they were inserted and the depths of the expanded
\* nodes never decrease; under DFS the children go to the back, so that the
\* node taken is the one inserted last of those on the frontier.
C21_ExpansionOrder ==
    /\ [](\A i \in 1..Len(graphs) : ExpansionOrder(graphs[i]))
    /\ [][\A i \in 1..Len(graphs) : Expands(i) => TakenFromBack(i)]_vars

\* C21 witness: a BFS and a DFS have each expanded three nodes or more, the
\* BFS down to depth 2, with two nodes or more waiting on the frontier.
C21_Witness ==
    \E i, j \in 1..Len(graphs) :
        /\ graphs[i].algorithm = BFS /\ graphs[j].algorithm = DFS
        /\ Len(graphs[i].explored) >= 3 /\ Len(graphs[j].explored) >= 3
        /\ Len(graphs[i].frontier) >= 2 /\ Len(graphs[j].frontier) >= 2
        /\ graphs[i].nodes[graphs[i].explored[Len(graphs[i].explored)]].depth >= 2

\* A search is created and started in this step.
Requests == Len(graphs') = Len(graphs) + 1

\* C22: from its start until it finishes a search changes nothing of the
\* live board: the step that creates and starts it, and every pass of the
\* loop of run(), leave the player coordinate, the box coordinates, the
\* stored original state, the goals and the walls of the Level as they are
\* (goalCoords and wallsCoords are read off the tiles).
C22_SearchLeavesBoard ==
    [][(Requests \/ \E i \in 1..Len(graphs) : Expands(i)) =>
          /\ player' = player
          /\ boxes' = boxes
          /\ origState' = origState
          /\ tiles' = tiles]_vars

\* C22 witness: a search requested after a move of the player has made three
\* passes or more and works on a state that is not the state of the live
\* board, which still is the state the search was requested in.
C22_Witness ==
    \E i \in 1..Len(graphs) :
        /\ graphs[i].pc = "run"
        /\ graphs[i].requestedAt >= 1
        /\ Len(graphs[i].explored) >= 3
        /\ graphs[i].state # Level_state(World)
        /\ StartState(graphs[i]) = Level_state(World)
        /\ Level_state(World) # origState

\* The finished signal of graph j is delivered in this step: _playSolution
\* calls _nextStep, which calls solutionStep of Level._graph, the last graph
\* created.
Delivers(j) ==
    /\ j <= Len(graphs') /\ graphs[j].pc = "finished" /\ graphs'[j].pc = "handled"

\* The moveFinished signal of the player is delivered to _nextStep in this
\* step (the step is none of a key press, a reset, a request, a pass of
\* run() or the delivery of a finished signal).
CallsBack ==
    /\ animating /\ connected > 0
    /\ manual' = manual /\ raised' = raised /\ emitted' = emitted
    /\ Len(graphs') = Len(graphs)
    /\ \A j \in 1..Len(graphs) : graphs'[j].pc = graphs[j].pc /\ ~Expands(j)

\* C23: the collections of a search are touched by its own thread only
\* while it runs: whenever the foreground calls solutionStep, on the
\* delivery of a finished signal or of moveFinished, the graph it calls it
\* on has left run(), whatever the order of the bfs/dfs requests and of the
\* searches finishing.
C23_StepOnlyOfFinishedGraph ==
    [][((\E j \in 1..Len(graphs) : Delivers(j)) \/ CallsBack) =>
          graphs[Len(graphs)].pc # "run"]_vars

----------------------------------------------------------------------------
(* The nodes of a search (SearchSpec). *)

\* C24: in every solution path stored by a search the first node is the
\* root (no parent, depth 0), the parent of every later node is the node
\* before it, and the i-th node, counted from 0, has depth i; every node
\* created during a run has as its depth the number of parent links between
\* it and the root.
C24_PathAndDepths ==
    \A i \in 1..Len(graphs) :
        LET g == graphs[i]
            path == g.returned
        IN  /\ path # <<>> =>
                  /\ path[1] = 1
                  /\ g.nodes[path[1]].parent = 0
                  /\ \A k \in 1..Len(path) :
                        /\ g.nodes[path[k]].depth = k - 1
                        /\ k > 1 => g.nodes[path[k]].parent = path[k - 1]
            /\ \A n \in 1..Len(g.nodes) :
                  LET chain == ParentChain(g.nodes, n)
                  IN  /\ g.nodes[n].depth = Len(chain) - 1
                      /\ chain[Len(chain)] = 1

\* C24 witness: a search has stored a path of four nodes or more, and has
\* created a node of depth 2 or more that is not on the path.
C24_Witness ==
    \E i \in 1..Len(graphs) :
        /\ Len(graphs[i].returned) >= 4
        /\ \E n \in 1..Len(graphs[i].nodes) :
              /\ ~In(n, graphs[i].returned)
              /\ graphs[i].nodes[n].depth >= 2

----------------------------------------------------------------------------
(* Well-formed states (Spec). *)

\* A state of the puzzle is well formed: it has as many boxes as the level
\* file, no two boxes share a coordinate, neither a box nor the player is on
\* a wall or background coordinate, and the player is not on a box.
WellFormed(state) ==
    /\ Len(state.boxes_pos) = Len(origState.boxes_pos)
    /\ \A k, l \in 1..Len(state.boxes_pos) :
          k # l => state.boxes_pos[k] # state.boxes_pos[l]
    /\ \A k \in 1..Len(state.boxes_pos) : state.boxes_pos[k] \notin WallSet
    /\ state.player_pos \notin WallSet
    /\ ~In(state.player_pos, state.boxes_pos)

----------------------------------------------------------------------------
(* The root of a search (SearchSpec). *)

\* C26: the root state is never tested for "solved": every non-empty path
\* stored by run() has two nodes or more, also when the start state has
\* every box on a goal, and its last state is never equal to the state of
\* the root.
C26_RootNeverAccepted ==
    \A i \in 1..Len(graphs) :
        LET g == graphs[i]
        IN  g.returned # <<>> =>
                /\ Len(g.returned) >= 2
                /\ g.returned[1] = 1
                /\ g.returned[Len(g.returned)] # 1
                /\ g.nodes[g.returned[Len(g.returned)]].state # StartState(g)

\* C26 witness: a search started in a state with every box on a goal has
\* stored a path, of two nodes or more.
C26_Witness ==
    \E i \in 1..Len(graphs) :
        /\ StartState(graphs[i]).boxes_pos # <<>>
        /\ SolvedPosition(Position(StartState(graphs[i])))
        /\ Len(graphs[i].returned) >= 2

----------------------------------------------------------------------------
(* The end of a search and the replay (Spec). *)

\* The position of the live board after this step.
BoardPositionAfter ==
    [player |-> player', boxes |-> {boxes'[k] : k \in 1..Len(boxes')}]

\* The positions the board can be in once it has been reset to the original
\* state and at most one step has been applied.
ResetThenOneStep == {Position(origState)} \cup Successors(Position(origState))

\* C27: whenever a search finishes, with or without a path, the live board
\* is reset to the original state of the level file before a step of the
\* replay is applied, whatever the state the search was started in and
\* whatever moves were made while it ran; when the path of the search is
\* empty no move is applied after the reset and the connection of
\* moveFinished to _nextStep that was made is removed again.
C27_FinishResetsBoard ==
    [][\A j \in 1..Len(graphs) :
          Delivers(j) =>
              /\ BoardPositionAfter \in ResetThenOneStep
              /\ graphs[j].returned = <<>> =>
                    /\ BoardPositionAfter = Position(origState)
                    /\ connected' = connected]_vars

----------------------------------------------------------------------------
(* The scene model (SceneSpec): key presses, the move lock and the flags   *)
(* of the floor tiles.                                                     *)

\* The cells of DataModel.LEVEL that are neither wall nor background.
ScenePassable ==
    {cell \in {<<r - 1, c - 1>> : r \in 1..Len(DataModel_LEVEL),
                                 c \in 1..Len(DataModel_LEVEL[1])} :
        DataModel_LEVEL[cell[1] + 1][cell[2] + 1] \notin {WALL, BACKGROUND}}

\* The cells of DataModel.LEVEL on which a box starts.
SceneBoxesAtStart ==
    {cell \in ScenePassable :
        DataModel_LEVEL[cell[1] + 1][cell[2] + 1] \in {BOX, BOX_ON_GOAL}}

\* The position of the scene, and the position after this step.
ScenePosition ==
    [player |-> scenePlayer, boxes |-> {sceneBoxes[k] : k \in 1..Len(sceneBoxes)}]

ScenePositionAfter ==
    [player |-> scenePlayer', boxes |-> {sceneBoxes'[k] : k \in 1..Len(sceneBoxes')}]

\* The rules on the scene: the move d is legal in position p.
SceneLegal(p, d) ==
    LET to == Plus(p.player, d)
        beyond == Plus(to, d)
    IN  /\ to \in ScenePassable
        /\ to \in p.boxes => (beyond \in ScenePassable /\ beyond \notin p.boxes)

\* The direction of an arrow key.
ArrowOf(key) ==
    IF key = "Key_Up" THEN <<-1, 0>>
    ELSE IF key = "Key_Down" THEN <<1, 0>>
    ELSE IF key = "Key_Left" THEN <<0, -1>>
    ELSE <<0, 1>>

Arrows == {"Key_Up", "Key_Down", "Key_Left", "Key_Right"}

====
